---- MODULE Spec2Model ----
(***************************************************************************)
(* Sudoku grid, backtracking solver and puzzle generator.                  *)
(*                                                                         *)
(* The recursive searches (SudokuSolver.solve, SudokuGrid.solve_bruteforce *)
(* and SudokuGenerator._fill_grid) are modelled as explicit-stack          *)
(* machines: one frame per active call that has entered its candidate      *)
(* loop, one action per source step.  Rows, columns and loop indices are   *)
(* 0-based as in the Python source.                                        *)
(***************************************************************************)
EXTENDS Integers, Sequences, FiniteSets, TLC

VARIABLES
    impl,       \* which source file's code is running
    size,       \* self.size
    box_size,   \* self.box_size
    grid,       \* self.grid (the grid the running operation mutates)
    original,   \* the caller's grid that `grid` was copied from (main.solve_grid)
    stack,      \* frames of the active recursive calls, innermost last
    pc,         \* position of the running operation
    rv,         \* value returned by the call that has just returned
    result,     \* outcome of the top-level operation, "none" before it ends
    draws,      \* number of random.shuffle(numbers) calls made so far
    difficulty, \* argument of create_puzzle
    cells_to_remove, \* local of create_puzzle
    positions,  \* local of create_puzzle: the shuffled coordinate list
    ri,         \* loop index `i` of create_puzzle's removal loop
    removed,    \* cells_to_remove computed for each difficulty (per generator)
    query,      \* last query method call on the grid and its answer, <<>> before
    store,      \* the row lists in memory: address -> cells of that list
    rows_of,    \* for the caller's grid and its copy: row index -> address
    written,    \* which of the two grids each cell write after copy() went to
    file,       \* the lines of the text file written or about to be read
    edits       \* number of edits made by hand to the file on disk

vars == <<impl, size, box_size, grid, original, stack, pc, rv, result,
          draws, difficulty, cells_to_remove, positions, ri, removed, query,
          store, rows_of, written, file, edits>>

\* variables of the generator, the size table and the grid queries
genVars == <<draws, difficulty, cells_to_remove, positions, ri>>
heapVars == <<store, rows_of, written>>
fileVars == <<file, edits>>
auxVars == <<removed, query, heapVars, fileVars>>

Difficulties == {"easy", "medium", "hard"}
NoCounts == [d \in Difficulties |-> -1]

(***************************************************************************)
(* Bounds of the model.                                                    *)
(***************************************************************************)
\* input grids of the solver differ from a base grid in at most MaxEdits cells
MaxEdits == 1
\* the first MaxShuffles calls of random.shuffle(numbers) return any rotation of
\* the list, or of the reversed list; the later ones return the list unchanged
MaxShuffles == 3
\* random.shuffle(positions) returns one of the strided orders with a start
\* offset of at most MaxOffset
MaxOffset == 1
\* grid sizes 1..MaxSize are constructed
MaxSize == 36

\* cell writes made to the two grids after copy()
MaxWrites == 1

\* largest step between neighbouring cells of the grids that are saved
MaxStep == 2

\* edits made to a small saved file before it is loaded
MaxFileEdits == 1

(***************************************************************************)
(* Grid: construction and the row / column / box checks.                   *)
(***************************************************************************)
\* int(n ** 0.5): the float square root truncated towards zero
IntSqrt(n) == CHOOSE b \in 0..n : b * b <= n /\ (b + 1) * (b + 1) > n

\* [[0 for _ in range(size)] for _ in range(size)]
ZeroGrid(sz) == [r \in 0..(sz - 1) |-> [c \in 0..(sz - 1) |-> 0]]

\* a grid written row by row, as the lines of a grid file
FromRows(rows) ==
    [r \in 0..(Len(rows) - 1) |-> [c \in 0..(Len(rows) - 1) |-> rows[r + 1][c + 1]]]

\* is_valid without the column loop
is_valid_NoColumn(g, sz, bs, row, col, num) ==
    LET start_row == (row \div bs) * bs
        start_col == (col \div bs) * bs
    IN  /\ \A c \in 0..(sz - 1) : g[row][c] # num
        /\ \A r \in start_row..(start_row + bs - 1) :
               \A c \in start_col..(start_col + bs - 1) : g[r][c] # num

\* SudokuSolver.is_valid: three loops over row, column and sub-square
is_valid(g, sz, bs, row, col, num) ==
    LET start_row == (row \div bs) * bs
        start_col == (col \div bs) * bs
    IN  /\ \A c \in 0..(sz - 1) : g[row][c] # num
        /\ \A r \in 0..(sz - 1) : g[r][col] # num
        /\ \A r \in start_row..(start_row + bs - 1) :
               \A c \in start_col..(start_col + bs - 1) : g[r][c] # num

\* v1 is_valid with the sub-square's first column computed from the row
v1_is_valid_BoxOrigin(g, sz, bs, row, col, num) ==
    LET start_row == (row \div bs) * bs
        start_col == (row \div bs) * bs
    IN  IF \E c \in 0..(sz - 1) : g[row][c] = num THEN FALSE
        ELSE IF \E r \in 0..(sz - 1) : g[r][col] = num THEN FALSE
        ELSE ~ \E r \in start_row..(start_row + bs - 1) :
                   \E c \in start_col..(start_col + bs - 1) : g[r][c] = num

\* sudoku_solver_v1.SudokuGrid.is_valid: the same three loops
v1_is_valid(g, sz, bs, row, col, num) ==
    LET start_row == (row \div bs) * bs
        start_col == (col \div bs) * bs
    IN  IF \E c \in 0..(sz - 1) : g[row][c] = num THEN FALSE
        ELSE IF \E r \in 0..(sz - 1) : g[r][col] = num THEN FALSE
        ELSE ~ \E r \in start_row..(start_row + bs - 1) :
                   \E c \in start_col..(start_col + bs - 1) : g[r][c] = num

\* utils.SudokuGrid.is_valid without the sub-square loops
grid_is_valid_NoBox(g, sz, bs, row, col, num) ==
    IF num \in {g[row][j] : j \in DOMAIN g[row]} THEN FALSE
    ELSE ~ \E k \in 0..(sz - 1) : g[k][col] = num

\* utils.SudokuGrid.is_valid: `num in self.grid[row]`, then column and sub-square loops
grid_is_valid(g, sz, bs, row, col, num) ==
    LET box_row == (row \div bs) * bs
        box_col == (col \div bs) * bs
    IN  IF num \in {g[row][j] : j \in DOMAIN g[row]} THEN FALSE
        ELSE IF \E k \in 0..(sz - 1) : g[k][col] = num THEN FALSE
        ELSE ~ \E k \in box_row..(box_row + bs - 1) :
                   \E j \in box_col..(box_col + bs - 1) : g[k][j] = num

\* the test reduced to the row scan, for every implementation
is_valid_of_RowOnly(im, g, sz, bs, row, col, num) ==
    \A c \in 0..(sz - 1) : g[row][c] # num

\* the is_valid that the code of `im` calls
is_valid_of(im, g, sz, bs, row, col, num) ==
    CASE im = "backtracking" -> is_valid(g, sz, bs, row, col, num)
      [] im = "v1"           -> v1_is_valid(g, sz, bs, row, col, num)
      [] OTHER               -> grid_is_valid(g, sz, bs, row, col, num)

\* find_empty_cell returning (j, i) for (i, j)
find_empty_cell_Swapped(g, sz) ==
    LET empties == {p \in (0..(sz - 1)) \X (0..(sz - 1)) : g[p[1]][p[2]] = 0}
    IN  IF empties = {} THEN <<>>
        ELSE LET first == CHOOSE p \in empties :
                     \A q \in empties : p[1] < q[1] \/ (p[1] = q[1] /\ p[2] <= q[2])
             IN  <<first[2], first[1]>>

\* find_empty_cell scanning column by column
find_empty_cell_ColMajor(g, sz) ==
    LET empties == {p \in (0..(sz - 1)) \X (0..(sz - 1)) : g[p[1]][p[2]] = 0}
    IN  IF empties = {} THEN <<>>
        ELSE CHOOSE p \in empties :
                 \A q \in empties : p[2] < q[2] \/ (p[2] = q[2] /\ p[1] <= q[1])

\* find_empty_cell: first zero cell in row-major order, <<>> for None
find_empty_cell(g, sz) ==
    LET empties == {p \in (0..(sz - 1)) \X (0..(sz - 1)) : g[p[1]][p[2]] = 0}
    IN  IF empties = {} THEN <<>>
        ELSE CHOOSE p \in empties :
                 \A q \in empties : p[1] < q[1] \/ (p[1] = q[1] /\ p[2] <= q[2])

\* list(range(1, size)): the candidate loop stops one value short
Range1_Short(sz) == [i \in 1..(sz - 1) |-> i]

\* list(range(1, size + 1))
Range1(sz) == [i \in 1..sz |-> i]

(***************************************************************************)
(* Input grids of the solver.                                              *)
(***************************************************************************)
\* the 4x4 scenario puzzle
Puzzle == FromRows(<< <<1, 2, 0, 0>>, <<3, 4, 0, 0>>, <<0, 0, 1, 2>>, <<0, 0, 3, 4>> >>)
\* a completely filled, solved grid
FullGrid == FromRows(<< <<1, 2, 3, 4>>, <<3, 4, 1, 2>>, <<2, 1, 4, 3>>, <<4, 3, 2, 1>> >>)
\* a puzzle with several completions
HalfFilled == FromRows(<< <<1, 2, 3, 4>>, <<3, 4, 1, 2>>, <<0, 0, 0, 0>>, <<0, 0, 0, 0>> >>)
\* a conflict-free puzzle without completion: (0,3) needs the 4 that column 3 holds
DeadEnd == FromRows(<< <<1, 2, 3, 0>>, <<0, 0, 0, 4>>, <<0, 0, 0, 0>>, <<0, 0, 0, 0>> >>)

BaseGrids == {Puzzle, FullGrid, HalfFilled, DeadEnd}

\* every grid obtained from a grid of G by overwriting at most one cell
EditOnce(G) ==
    G \cup {[g EXCEPT ![r][c] = v] : g \in G, r \in 0..3, c \in 0..3, v \in 0..4}

RECURSIVE EditN(_, _)
EditN(G, k) == IF k = 0 THEN G ELSE EditN(EditOnce(G), k - 1)

InputGrids == EditN(BaseGrids, MaxEdits)

\* the empty 4x4 grid with one value written twice into one row
RowPairGrids ==
    {[ZeroGrid(4) EXCEPT ![r] = [@ EXCEPT ![cc[1]] = v, ![cc[2]] = v]] :
        r \in 0..3, cc \in {x \in (0..3) \X (0..3) : x[1] < x[2]}, v \in 1..4}

(***************************************************************************)
(* Solver: SudokuSolver.solve / SudokuGrid.solve_bruteforce.               *)
(***************************************************************************)
Top == stack[Len(stack)]
Pop == SubSeq(stack, 1, Len(stack) - 1)

\* main.solve_grid: copy the grid, build the solver on the copy, call solve()
InitSolveOn(inputs) ==
    /\ impl \in {"backtracking", "v1"}
    /\ original \in inputs
    /\ grid = original
    /\ size = Cardinality(DOMAIN original)
    /\ box_size = IntSqrt(Cardinality(DOMAIN original))
    /\ stack = <<>>
    /\ pc = "call"
    /\ rv = FALSE
    /\ result = "none"
    /\ draws = 0
    /\ difficulty = "none"
    /\ cells_to_remove = 0
    /\ positions = <<>>
    /\ ri = 0
    /\ removed = NoCounts
    /\ query = <<>>
    /\ store = <<>>
    /\ rows_of = <<>>
    /\ written = <<>>
    /\ file = <<>>
    /\ edits = 0

InitSolve == InitSolveOn(InputGrids)

\* entry of solve(): find the first empty cell; none left means solved.
\* A frame holds the locals row, col, the candidate list and the loop position;
\* `entry` records the grid the call was entered with.
SolveCall ==
    /\ pc = "call"
    /\ LET empty_cell == find_empty_cell(grid, size)
       IN  IF empty_cell = <<>>
           THEN /\ rv' = TRUE
                /\ pc' = "ret"
                /\ stack' = stack
           ELSE /\ stack' = Append(stack, [row |-> empty_cell[1], col |-> empty_cell[2],
                                           numbers |-> Range1(size), idx |-> 0,
                                           entry |-> grid])
                /\ pc' = "loop"
                /\ rv' = rv
    /\ UNCHANGED <<impl, size, box_size, grid, original, result, genVars, auxVars>>

\* the loop written with a position that only moves on after a placement
SolveTry_NoAdvance ==
    /\ pc = "loop"
    /\ Top.idx < Len(Top.numbers)
    /\ LET num == Top.numbers[Top.idx + 1]
       IN  IF is_valid_of(impl, grid, size, box_size, Top.row, Top.col, num)
           THEN /\ stack' = [stack EXCEPT ![Len(stack)].idx = @ + 1]
                /\ grid' = [grid EXCEPT ![Top.row][Top.col] = num]
                /\ pc' = "call"
           ELSE /\ stack' = stack
                /\ grid' = grid
                /\ pc' = "loop"
    /\ UNCHANGED <<impl, size, box_size, original, rv, result, genVars, auxVars>>

\* one iteration of `for num in range(1, size + 1)`: test, place, recurse
SolveTry ==
    /\ pc = "loop"
    /\ Top.idx < Len(Top.numbers)
    /\ LET num == Top.numbers[Top.idx + 1]
       IN  /\ stack' = [stack EXCEPT ![Len(stack)].idx = @ + 1]
           /\ IF is_valid_of(impl, grid, size, box_size, Top.row, Top.col, num)
              THEN /\ grid' = [grid EXCEPT ![Top.row][Top.col] = num]
                   /\ pc' = "call"
              ELSE /\ grid' = grid
                   /\ pc' = "loop"
    /\ UNCHANGED <<impl, size, box_size, original, rv, result, genVars, auxVars>>

\* the loop is exhausted: `return False`, the frame of the call is dropped
SolveExhausted ==
    /\ pc = "loop"
    /\ Top.idx = Len(Top.numbers)
    /\ rv' = FALSE
    /\ pc' = "ret"
    /\ stack' = Pop
    /\ UNCHANGED <<impl, size, box_size, grid, original, result, genVars, auxVars>>

\* the caller resumes and undoes at the transposed cell: self.grid[col][row] = 0
SolveReturn_UndoTransposed ==
    /\ pc = "ret"
    /\ stack # <<>>
    /\ IF rv
       THEN /\ stack' = Pop
            /\ pc' = "ret"
            /\ grid' = grid
       ELSE /\ grid' = [grid EXCEPT ![Top.col][Top.row] = 0]
            /\ pc' = "loop"
            /\ stack' = stack
    /\ UNCHANGED <<impl, size, box_size, original, rv, result, genVars, auxVars>>

\* the caller resumes but the placement is not undone (line 104 missing)
SolveReturn_NoUndo ==
    /\ pc = "ret"
    /\ stack # <<>>
    /\ IF rv
       THEN /\ stack' = Pop
            /\ pc' = "ret"
       ELSE /\ pc' = "loop"
            /\ stack' = stack
    /\ UNCHANGED <<impl, size, box_size, grid, original, rv, result, genVars, auxVars>>

\* the caller resumes after `if self.solve():` -- return True, or undo the placement
SolveReturn ==
    /\ pc = "ret"
    /\ stack # <<>>
    /\ IF rv
       THEN /\ stack' = Pop
            /\ pc' = "ret"
            /\ grid' = grid
       ELSE /\ grid' = [grid EXCEPT ![Top.row][Top.col] = 0]
            /\ pc' = "loop"
            /\ stack' = stack
    /\ UNCHANGED <<impl, size, box_size, original, rv, result, genVars, auxVars>>

\* the outermost call returns to main.solve_grid
SolveDone ==
    /\ pc = "ret"
    /\ stack = <<>>
    /\ result' = IF rv THEN "true" ELSE "false"
    /\ pc' = "done"
    /\ UNCHANGED <<impl, size, box_size, grid, original, stack, rv, genVars, auxVars>>

NextSolve == SolveCall \/ SolveTry \/ SolveExhausted \/ SolveReturn \/ SolveDone

SpecSolve == InitSolve /\ [][NextSolve]_vars

\* the interpreter runs the single thread on: a step that can be taken is taken
SpecSolveFair == InitSolve /\ [][NextSolve]_vars /\ WF_vars(NextSolve)

\* the solver on the grids with one directly conflicting pair in a row
InitPair == InitSolveOn(RowPairGrids)

SpecPair == InitPair /\ [][NextSolve]_vars

(***************************************************************************)
(* The grid invariants of the data model, stated over the units (rows,     *)
(* columns, boxes) as sets of cells.                                       *)
(***************************************************************************)
CellsOf(sz) == (0..(sz - 1)) \X (0..(sz - 1))

Units(sz, bs) ==
    {{p \in CellsOf(sz) : p[1] = r} : r \in 0..(sz - 1)}
    \cup {{p \in CellsOf(sz) : p[2] = c} : c \in 0..(sz - 1)}
    \cup {{p \in CellsOf(sz) : p[1] \div bs = br /\ p[2] \div bs = bc} :
              br \in 0..(bs - 1), bc \in 0..(bs - 1)}

\* solved: every unit holds each value of 1..size exactly once
Solved(g, sz, bs) ==
    \A u \in Units(sz, bs) : \A v \in 1..sz :
        Cardinality({p \in u : g[p[1]][p[2]] = v}) = 1

\* partially filled: no two non-zero cells of one unit are equal
PartialFill(g, sz, bs) ==
    \A u \in Units(sz, bs) : \A p \in u, q \in u :
        (p # q /\ g[p[1]][p[2]] # 0) => g[p[1]][p[2]] # g[q[1]][q[2]]

HasZero(g, sz) == \E p \in CellsOf(sz) : g[p[1]][p[2]] = 0

\* all orderings of 1..sz
Perms(sz) == {p \in [1..sz -> 1..sz] : \A a \in 1..sz, b \in 1..sz : a # b => p[a] # p[b]}

\* the solved 4x4 grids, built from rows that are permutations
SolvedGrids4 ==
    LET rows == {[c \in 0..3 |-> p[c + 1]] : p \in Perms(4)}
        bands == {b \in [0..1 -> rows] :
                     /\ \A c \in 0..3 : b[0][c] # b[1][c]
                     /\ {b[0][0], b[0][1], b[1][0], b[1][1]} = 1..4
                     /\ {b[0][2], b[0][3], b[1][2], b[1][3]} = 1..4}
    IN  {g \in {[r \in 0..3 |-> IF r < 2 THEN t[r] ELSE u[r - 2]] : t \in bands, u \in bands} :
            \A c \in 0..3 : {g[r][c] : r \in 0..3} = 1..4}

\* the solved grids that agree with g on its non-zero cells
Completions(g) ==
    {s \in SolvedGrids4 : \A p \in CellsOf(4) : g[p[1]][p[2]] \in {0, s[p[1]][p[2]]}}

(***************************************************************************)
(* Generator: SudokuGenerator.generate_complete_grid / _fill_grid /        *)
(* create_puzzle (sudoku_generator.py on utils.SudokuGrid, and the copy in *)
(* sudoku_solver_v1.py).                                                   *)
(***************************************************************************)
Min(a, b) == IF a <= b THEN a ELSE b

\* the test with `*2` for `**2`
IsPerfectSquare_Double(sz) == IntSqrt(sz) * 2 = sz

\* `int(size**0.5)**2 != size` does not hold
IsPerfectSquare(sz) == IntSqrt(sz) * IntSqrt(sz) = sz

\* cells_to_remove without the `min(...)` line
CellsToRemove_NoClamp(im, sz, d) ==
    IF im = "v1"
    THEN (IF d = "easy" THEN sz * 4 ELSE IF d = "medium" THEN sz * 5 ELSE sz * 6)
    ELSE (IF d = "easy" THEN sz * 7 ELSE IF d = "medium" THEN sz * 8 ELSE sz * 9)

\* cells_to_remove with the medium and hard multipliers exchanged
CellsToRemove_Swapped(im, sz, d) ==
    LET unclamped ==
            IF im = "v1"
            THEN (IF d = "easy" THEN sz * 4 ELSE IF d = "medium" THEN sz * 6 ELSE sz * 5)
            ELSE (IF d = "easy" THEN sz * 7 ELSE IF d = "medium" THEN sz * 9 ELSE sz * 8)
    IN  Min(unclamped, sz * sz - sz)

\* cells_to_remove of create_puzzle: size times the tier multiplier, clamped
CellsToRemove(im, sz, d) ==
    LET unclamped ==
            IF im = "v1"
            THEN (IF d = "easy" THEN sz * 4 ELSE IF d = "medium" THEN sz * 5 ELSE sz * 6)
            ELSE (IF d = "easy" THEN sz * 7 ELSE IF d = "medium" THEN sz * 8 ELSE sz * 9)
    IN  Min(unclamped, sz * sz - sz)

\* [(i, j) for i in range(size) for j in range(size)]
AllPositions(sz) == [k \in 1..(sz * sz) |-> <<(k - 1) \div sz, (k - 1) % sz>>]

\* the rotations of 1..sz and of sz..1, each an ordering of 1..sz
Orders(sz) ==
    {q \in {[k \in 1..sz |-> IF up THEN ((o + k - 1) % sz) + 1 ELSE sz - ((o + k - 1) % sz)] :
                o \in 0..(sz - 1), up \in BOOLEAN} : q \in Perms(sz)}

\* the outcomes of random.shuffle(numbers) at the current draw
NumberShuffles ==
    IF draws < MaxShuffles THEN Orders(size) ELSE {Range1(size)}

\* the outcomes of random.shuffle(positions): orderings of the list that
\* start at an offset and step through it with a stride
PositionShuffles(sz) ==
    LET list == AllPositions(sz)
        n == Len(list)
        strided == {[k \in 1..n |-> list[((o + (k - 1) * st) % n) + 1]] :
                       o \in 0..MaxOffset, st \in {1, 5, n - 1}}
    IN  {q \in strided : \A a \in 1..n : \E b \in 1..n : q[b] = list[a]}

GenSizes == {1, 4}

\* SudokuGenerator(size), create_puzzle is about to run; its argument
\* `difficulty` is first read after generate_complete_grid has returned and is
\* drawn there
InitGen ==
    /\ impl \in {"generator", "v1"}
    /\ size \in GenSizes
    /\ difficulty = "none"
    /\ box_size = 0
    /\ grid = <<>>
    /\ original = <<>>
    /\ stack = <<>>
    /\ pc = "start"
    /\ rv = FALSE
    /\ result = "none"
    /\ draws = 0
    /\ cells_to_remove = 0
    /\ positions = <<>>
    /\ ri = 0
    /\ removed = NoCounts
    /\ query = <<>>
    /\ store = <<>>
    /\ rows_of = <<>>
    /\ written = <<>>
    /\ file = <<>>
    /\ edits = 0

\* generate_complete_grid: grid = SudokuGrid(self.size)
GenConstruct ==
    /\ pc = "start"
    /\ IF IsPerfectSquare(size)
       THEN /\ grid' = ZeroGrid(size)
            /\ box_size' = IntSqrt(size)
            /\ pc' = "call"
            /\ result' = result
       ELSE /\ pc' = "error"
            /\ result' = "ValueError"
            /\ UNCHANGED <<grid, box_size>>
    /\ UNCHANGED <<impl, size, original, stack, rv, genVars, auxVars>>

\* entry of _fill_grid: first empty cell, then a freshly shuffled candidate list
FillCall ==
    /\ pc = "call"
    /\ LET empty_cell == find_empty_cell(grid, size)
       IN  IF empty_cell = <<>>
           THEN /\ rv' = TRUE
                /\ pc' = "ret"
                /\ UNCHANGED <<stack, draws>>
           ELSE /\ \E numbers \in NumberShuffles :
                       stack' = Append(stack, [row |-> empty_cell[1], col |-> empty_cell[2],
                                               numbers |-> numbers, idx |-> 0,
                                               entry |-> grid])
                /\ draws' = Min(draws + 1, MaxShuffles)
                /\ pc' = "loop"
                /\ rv' = rv
    /\ UNCHANGED <<impl, size, box_size, grid, original, result,
                   difficulty, cells_to_remove, positions, ri, auxVars>>

\* the loop body without the test `if grid.is_valid(row, col, num)`
FillTry_NoTest ==
    /\ pc = "loop"
    /\ Top.idx < Len(Top.numbers)
    /\ LET num == Top.numbers[Top.idx + 1]
       IN  /\ stack' = [stack EXCEPT ![Len(stack)].idx = @ + 1]
           /\ grid' = [grid EXCEPT ![Top.row][Top.col] = num]
           /\ pc' = "call"
    /\ UNCHANGED <<impl, size, box_size, original, rv, result, genVars, auxVars>>

\* one iteration of `for num in numbers`: test, place, recurse
FillTry ==
    /\ pc = "loop"
    /\ Top.idx < Len(Top.numbers)
    /\ LET num == Top.numbers[Top.idx + 1]
       IN  /\ stack' = [stack EXCEPT ![Len(stack)].idx = @ + 1]
           /\ IF is_valid_of(impl, grid, size, box_size, Top.row, Top.col, num)
              THEN /\ grid' = [grid EXCEPT ![Top.row][Top.col] = num]
                   /\ pc' = "call"
              ELSE /\ grid' = grid
                   /\ pc' = "loop"
    /\ UNCHANGED <<impl, size, box_size, original, rv, result, genVars, auxVars>>

\* the candidate list is exhausted: `return False`
FillExhausted ==
    /\ pc = "loop"
    /\ Top.idx = Len(Top.numbers)
    /\ rv' = FALSE
    /\ pc' = "ret"
    /\ stack' = Pop
    /\ UNCHANGED <<impl, size, box_size, grid, original, result, genVars, auxVars>>

\* the caller resumes after `if self._fill_grid(grid):`
FillReturn ==
    /\ pc = "ret"
    /\ stack # <<>>
    /\ IF rv
       THEN /\ stack' = Pop
            /\ pc' = "ret"
            /\ grid' = grid
       ELSE /\ grid' = [grid EXCEPT ![Top.row][Top.col] = 0]
            /\ pc' = "loop"
            /\ stack' = stack
    /\ UNCHANGED <<impl, size, box_size, original, rv, result, genVars, auxVars>>

\* generate_complete_grid returns the grid, whatever _fill_grid returned
FillDone ==
    /\ pc = "ret"
    /\ stack = <<>>
    /\ pc' = "filled"
    /\ UNCHANGED <<impl, size, box_size, grid, original, stack, rv, result,
                   genVars, auxVars>>

\* create_puzzle: cells_to_remove, the coordinate list and its shuffle
CreateCount ==
    /\ pc = "filled"
    /\ \E d \in Difficulties :
           /\ difficulty' = d
           /\ cells_to_remove' = CellsToRemove(impl, size, d)
    /\ positions' \in PositionShuffles(size)
    /\ ri' = 0
    /\ pc' = "remove"
    /\ UNCHANGED <<impl, size, box_size, grid, original, stack, rv, result,
                   draws, auxVars>>

\* one iteration of `for i in range(cells_to_remove)`: blank positions[i]
RemoveCell ==
    /\ pc = "remove"
    /\ ri < cells_to_remove
    /\ IF ri < Len(positions)
       THEN /\ grid' = [grid EXCEPT ![positions[ri + 1][1]][positions[ri + 1][2]] = 0]
            /\ ri' = ri + 1
            /\ UNCHANGED <<pc, result>>
       ELSE /\ pc' = "error"           \* positions[i] out of range
            /\ result' = "IndexError"
            /\ UNCHANGED <<grid, ri>>
    /\ UNCHANGED <<impl, size, box_size, original, stack, rv,
                   draws, difficulty, cells_to_remove, positions, auxVars>>

\* create_puzzle returns the punctured grid
CreateDone ==
    /\ pc = "remove"
    /\ ri >= cells_to_remove
    /\ pc' = "done"
    /\ result' = "puzzle"
    /\ UNCHANGED <<impl, size, box_size, grid, original, stack, rv, genVars, auxVars>>

NextGen ==
    \/ GenConstruct \/ FillCall \/ FillTry \/ FillExhausted \/ FillReturn \/ FillDone
    \/ CreateCount \/ RemoveCell \/ CreateDone

SpecGen == InitGen /\ [][NextGen]_vars

\* the solver's inputs when it runs next to the generator
SearchInputs == EditOnce(BaseGrids)

\* both recursive searches side by side: the solver on a caller's grid, the
\* generator on the grid it constructs itself
InitSearch == InitSolveOn(SearchInputs) \/ InitGen

NextSearch ==
    \/ original # <<>> /\ NextSolve
    \/ original = <<>> /\ NextGen

SpecSearch == InitSearch /\ [][NextSearch]_vars

(***************************************************************************)
(* Sizes: SudokuGrid(size) for every size of 1..MaxSize and, on the sizes  *)
(* that construct, the cells_to_remove that create_puzzle computes for     *)
(* each difficulty (generate_test_grids calls it once per difficulty).     *)
(***************************************************************************)
InitSize ==
    /\ impl \in {"generator", "v1"}
    /\ size \in 1..MaxSize
    /\ difficulty = "none"
    /\ box_size = 0
    /\ grid = <<>>
    /\ original = <<>>
    /\ stack = <<>>
    /\ pc = "new"
    /\ rv = FALSE
    /\ result = "none"
    /\ draws = 0
    /\ cells_to_remove = 0
    /\ positions = <<>>
    /\ ri = 0
    /\ removed = NoCounts
    /\ query = <<>>
    /\ store = <<>>
    /\ rows_of = <<>>
    /\ written = <<>>
    /\ file = <<>>
    /\ edits = 0

\* SudokuGrid.__init__: raise ValueError unless size is a perfect square
Construct ==
    /\ pc = "new"
    /\ IF ~IsPerfectSquare(size)
       THEN /\ pc' = "error"
            /\ result' = "ValueError"
            /\ UNCHANGED <<grid, box_size>>
       ELSE /\ box_size' = IntSqrt(size)
            /\ grid' = ZeroGrid(size)
            /\ pc' = "constructed"
            /\ result' = result
    /\ UNCHANGED <<impl, size, original, stack, rv, genVars, auxVars>>

\* create_puzzle(d), the lines that compute cells_to_remove
CountCells ==
    /\ pc = "constructed"
    /\ \E d \in Difficulties :
           /\ removed[d] = -1
           /\ removed' = [removed EXCEPT ![d] = CellsToRemove(impl, size, d)]
    /\ UNCHANGED <<impl, size, box_size, grid, original, stack, pc, rv, result,
                   genVars, query, heapVars, fileVars>>

NextSize == Construct \/ CountCells

SpecSize == InitSize /\ [][NextSize]_vars

(***************************************************************************)
(* Grid queries: is_valid called on a loaded grid.                         *)
(***************************************************************************)
InitGrid ==
    /\ impl \in {"utils", "backtracking", "v1"}
    /\ original \in InputGrids
    /\ grid = original
    /\ size = Cardinality(DOMAIN original)
    /\ box_size = IntSqrt(Cardinality(DOMAIN original))
    /\ stack = <<>>
    /\ pc = "ready"
    /\ rv = FALSE
    /\ result = "none"
    /\ draws = 0
    /\ difficulty = "none"
    /\ cells_to_remove = 0
    /\ positions = <<>>
    /\ ri = 0
    /\ removed = NoCounts
    /\ query = <<>>
    /\ store = <<>>
    /\ rows_of = <<>>
    /\ written = <<>>
    /\ file = <<>>
    /\ edits = 0

\* is_valid(row, col, num): the method reads the grid and returns a boolean
IsValidCall ==
    /\ pc = "ready"
    /\ \E row \in 0..(size - 1), col \in 0..(size - 1), num \in 1..size :
           query' = [row |-> row, col |-> col, num |-> num,
                     answer |-> is_valid_of(impl, grid, size, box_size, row, col, num)]
    /\ pc' = "answered"
    /\ UNCHANGED <<impl, size, box_size, grid, original, stack, rv, result,
                   genVars, removed, heapVars, fileVars>>

\* find_empty_cell(): the method scans the grid and returns a cell or None
FindEmptyCall ==
    /\ pc = "ready"
    /\ query' = [answer |-> find_empty_cell(grid, size)]
    /\ pc' = "found"
    /\ UNCHANGED <<impl, size, box_size, grid, original, stack, rv, result,
                   genVars, removed, heapVars, fileVars>>

NextGrid == IsValidCall \/ FindEmptyCall

SpecGrid == InitGrid /\ [][NextGrid]_vars

(***************************************************************************)
(* Textual form: utils.char_to_value / value_to_char, save_grid_to_file /  *)
(* load_grid_from_file.  A character is a one-character string, a line a   *)
(* sequence of characters, a file a sequence of lines.                     *)
(***************************************************************************)
Digits == <<"0", "1", "2", "3", "4", "5", "6", "7", "8", "9">>
Upper == <<"A", "B", "C", "D", "E", "F", "G", "H", "I", "J", "K", "L", "M",
           "N", "O", "P", "Q", "R", "S", "T", "U", "V", "W", "X", "Y", "Z">>
Lower == <<"a", "b", "c", "d", "e", "f", "g", "h", "i", "j", "k", "l", "m",
           "n", "o", "p", "q", "r", "s", "t", "u", "v", "w", "x", "y", "z">>

Has(seq, x) == \E k \in 1..Len(seq) : seq[k] = x
IndexOf(seq, x) == CHOOSE k \in 1..Len(seq) : seq[k] = x

\* char.upper()
upper(char) == IF Has(Lower, char) THEN Upper[IndexOf(Lower, char)] ELSE char

\* what char_to_value yields when it raises ValueError
Raised == -1

\* char_to_value counting the letters from 11: ord(c) - ord('A') + 11
char_to_value_From11(char) ==
    IF char = "." THEN 0
    ELSE IF Has(Digits, char) THEN IndexOf(Digits, char) - 1
    ELSE IF Has(Upper, upper(char)) THEN IndexOf(Upper, upper(char)) - 1 + 11
    ELSE Raised

\* char_to_value: '.' -> 0, a digit -> int(char), a letter -> 10..35
char_to_value(char) ==
    IF char = "." THEN 0
    ELSE IF Has(Digits, char) THEN IndexOf(Digits, char) - 1
    ELSE IF Has(Upper, upper(char)) THEN IndexOf(Upper, upper(char)) - 1 + 10
    ELSE Raised

\* value_to_char: 0 -> '.', 1..9 -> str(value), 10..35 -> a letter, else ValueError
value_to_char(value) ==
    IF value = 0 THEN "."
    ELSE IF 1 <= value /\ value <= 9 THEN Digits[value + 1]
    ELSE IF 10 <= value /\ value <= 35 THEN Upper[value - 10 + 1]
    ELSE "ValueError"

\* line.strip(): leading and trailing blanks removed
strip(line) ==
    LET inked == {k \in 1..Len(line) : line[k] # " "}
    IN  IF inked = {} THEN <<>>
        ELSE SubSeq(line, CHOOSE k \in inked : \A m \in inked : k <= m,
                          CHOOSE k \in inked : \A m \in inked : k >= m)

\* line.replace(' ', '')
NotSpace(char) == char # " "
replace_spaces(line) == SelectSeq(line, NotSpace)

NotBlank(line) == line # <<>>

\* load_grid_from_file keeping interior spaces: `chars = line`
load_grid_from_file_KeepSpaces(f) ==
    LET lines == SelectSeq([k \in 1..Len(f) |-> strip(f[k])], NotBlank)
        sz == Len(lines)
        chars == [k \in 1..sz |-> lines[k]]
    IN  IF lines = <<>> THEN [error |-> "ValueError", grid |-> <<>>]
        ELSE IF ~IsPerfectSquare(sz) THEN [error |-> "ValueError", grid |-> <<>>]
        ELSE IF \E k \in 1..sz : Len(chars[k]) # sz
        THEN [error |-> "ValueError", grid |-> <<>>]
        ELSE IF \E k \in 1..sz, j \in 1..sz :
                    LET num == char_to_value(chars[k][j])
                    IN  num = Raised \/ num < 0 \/ num > sz
        THEN [error |-> "ValueError", grid |-> <<>>]
        ELSE [error |-> "none",
              grid |-> [r \in 0..(sz - 1) |->
                           [c \in 0..(sz - 1) |-> char_to_value(chars[r + 1][c + 1])]]]

\* load_grid_from_file: the grid read from the lines, or the ValueError raised
load_grid_from_file(f) ==
    LET lines == SelectSeq([k \in 1..Len(f) |-> strip(f[k])], NotBlank)
        sz == Len(lines)
        chars == [k \in 1..sz |-> replace_spaces(lines[k])]
    IN  IF lines = <<>> THEN [error |-> "ValueError", grid |-> <<>>]
        ELSE IF ~IsPerfectSquare(sz) THEN [error |-> "ValueError", grid |-> <<>>]
        ELSE IF \E k \in 1..sz : Len(chars[k]) # sz
        THEN [error |-> "ValueError", grid |-> <<>>]
        ELSE IF \E k \in 1..sz, j \in 1..sz :
                    LET num == char_to_value(chars[k][j])
                    IN  num = Raised \/ num < 0 \/ num > sz
        THEN [error |-> "ValueError", grid |-> <<>>]
        ELSE [error |-> "none",
              grid |-> [r \in 0..(sz - 1) |->
                           [c \in 0..(sz - 1) |-> char_to_value(chars[r + 1][c + 1])]]]

\* the line save_grid_to_file builds for one row
RowLine(g, sz, r) == [k \in 1..sz |-> value_to_char(g[r][k - 1])]

\* save_grid_to_file: the lines written; a row holding a value without symbol
\* raises ValueError after the rows before it were written
save_grid_to_file(g, sz) ==
    LET bad == {r \in 0..(sz - 1) : Has(RowLine(g, sz, r), "ValueError")}
        stop == IF bad = {} THEN sz ELSE CHOOSE r \in bad : \A q \in bad : r <= q
    IN  [error |-> IF bad = {} THEN "none" ELSE "ValueError",
         lines |-> [k \in 1..stop |-> RowLine(g, sz, k - 1)]]

\* the sizes a grid can be constructed with
SquareSizes == {sz \in 1..MaxSize : IsPerfectSquare(sz)}

\* grids of every size whose cells run through 0..size with a fixed step
RampGrid(sz, a, b) ==
    [r \in 0..(sz - 1) |-> [c \in 0..(sz - 1) |-> (a + b * (r * sz + c)) % (sz + 1)]]

SaveGrids ==
    UNION {{RampGrid(sz, a, b) : a \in 0..sz, b \in 0..MaxStep} : sz \in SquareSizes}

\* characters typed into a file: symbols in and out of range, a blank, a stray sign
EditChars == {".", "0", "3", "5", "A", "a", " ", "#"}

InsertAt(seq, k, x) == SubSeq(seq, 1, k - 1) \o <<x>> \o SubSeq(seq, k, Len(seq))
RemoveAt(seq, k) == SubSeq(seq, 1, k - 1) \o SubSeq(seq, k + 1, Len(seq))

\* the files one edit away from f: a character replaced or inserted, a line
\* removed, a blank or a further line inserted
EditsOf(f) ==
    UNION {{[f EXCEPT ![l][k] = ch] : k \in 1..Len(f[l]), ch \in EditChars}
           \cup {[f EXCEPT ![l] = InsertAt(@, k, ch)] :
                    k \in 1..(Len(f[l]) + 1), ch \in EditChars} : l \in 1..Len(f)}
    \cup {RemoveAt(f, l) : l \in 1..Len(f)}
    \cup {InsertAt(f, l, x) : l \in 1..(Len(f) + 1),
                              x \in {<<>>, <<" ">>, <<"1", "2", "3", "4">>}}

\* a saved file rewritten by hand: lower-case letters, cells separated by blanks
Lowered(f) ==
    [l \in 1..Len(f) |->
        [k \in 1..Len(f[l]) |->
            IF Has(Upper, f[l][k]) THEN Lower[IndexOf(Upper, f[l][k])] ELSE f[l][k]]]
Spaced(f) ==
    [l \in 1..Len(f) |->
        [k \in 1..(2 * Len(f[l]) - 1) |-> IF k % 2 = 1 THEN f[l][(k + 1) \div 2] ELSE " "]]

\* the files on disk: the saved puzzle, the saved full grid, the saved empty
\* grid of size 1 and the empty file, which are then edited by hand, and
\* rewritten or damaged files of size 16, which are loaded as they are
SmallFiles ==
    {save_grid_to_file(g, 4).lines : g \in {Puzzle, FullGrid}}
    \cup {save_grid_to_file(ZeroGrid(1), 1).lines, <<>>}
LargeFiles ==
    LET saved == {save_grid_to_file(RampGrid(16, a, 1), 16).lines : a \in {0, 7}}
    IN  saved
        \cup {Lowered(f) : f \in saved}
        \cup {Spaced(f) : f \in saved}
        \cup {[f EXCEPT ![l][k] = ch] : f \in saved, l \in {1, 16}, k \in {1, 16},
                                        ch \in {"H", "h", "G", "g", "#", "0"}}
        \cup {RemoveAt(f, 16) : f \in saved}
        \cup {[f EXCEPT ![16] = RemoveAt(@, 16)] : f \in saved}
FileInputs == SmallFiles \cup LargeFiles

\* either a grid in memory that is about to be saved, or a file on disk
InitFile ==
    /\ impl = "utils"
    /\ \/ /\ grid \in SaveGrids
          /\ file = <<>>
          /\ edits = 0
       \/ /\ grid = <<>>
          /\ file \in FileInputs
          /\ edits = IF file \in SmallFiles THEN 0 ELSE MaxFileEdits
    /\ original = grid
    /\ size = Cardinality(DOMAIN grid)
    /\ box_size = IntSqrt(Cardinality(DOMAIN grid))
    /\ stack = <<>>
    /\ pc = "ready"
    /\ rv = FALSE
    /\ result = "none"
    /\ draws = 0
    /\ difficulty = "none"
    /\ cells_to_remove = 0
    /\ positions = <<>>
    /\ ri = 0
    /\ removed = NoCounts
    /\ query = <<>>
    /\ store = <<>>
    /\ rows_of = <<>>
    /\ written = <<>>

\* somebody edits the file on disk before it is loaded
EditFile ==
    /\ pc = "ready"
    /\ grid = <<>>
    /\ edits < MaxFileEdits
    /\ file' \in EditsOf(file)
    /\ edits' = edits + 1
    /\ UNCHANGED <<impl, size, box_size, grid, original, stack, pc, rv, result,
                   genVars, removed, query, heapVars>>

\* save_grid_to_file(grid, filename)
SaveCall ==
    /\ pc = "ready"
    /\ grid # <<>>
    /\ LET out == save_grid_to_file(grid, size)
       IN  /\ file' = out.lines
           /\ result' = out.error
    /\ pc' = "saved"
    /\ UNCHANGED <<impl, size, box_size, grid, original, stack, rv,
                   genVars, removed, query, heapVars, edits>>

\* load_grid_from_file(filename) on the file just saved, or on a file found on disk
LoadCall ==
    /\ \/ pc = "saved" /\ result = "none"
       \/ pc = "ready" /\ grid = <<>>
    /\ LET in == load_grid_from_file(file)
       IN  /\ grid' = in.grid
           /\ result' = in.error
           /\ size' = Cardinality(DOMAIN in.grid)
           /\ box_size' = IntSqrt(Cardinality(DOMAIN in.grid))
    /\ pc' = "loaded"
    /\ UNCHANGED <<impl, original, stack, rv, genVars, removed, query, heapVars, fileVars>>

\* value_to_char(v) for a cell value of the grid's size
EncodeCall ==
    /\ pc = "ready"
    /\ grid # <<>>
    /\ \E v \in 0..size : query' = [value |-> v, char |-> value_to_char(v)]
    /\ pc' = "encoded"
    /\ UNCHANGED <<impl, size, box_size, grid, original, stack, rv, result,
                   genVars, removed, heapVars, fileVars>>

\* char_to_value of the symbol just produced
DecodeCall ==
    /\ pc = "encoded"
    /\ query.char # "ValueError"
    /\ query' = [value |-> query.value, char |-> query.char,
                 decoded |-> char_to_value(query.char)]
    /\ pc' = "decoded"
    /\ UNCHANGED <<impl, size, box_size, grid, original, stack, rv, result,
                   genVars, removed, heapVars, fileVars>>

NextFile == EditFile \/ SaveCall \/ LoadCall \/ EncodeCall \/ DecodeCall

SpecFile == InitFile /\ [][NextFile]_vars

(***************************************************************************)
(* copy(): the grids are lists of row lists.  `store` maps the address of  *)
(* a row list to its cells, `rows_of` gives for each grid the addresses of *)
(* its rows, and a cell write changes `store` at the address the written   *)
(* grid holds for that row.                                                *)
(***************************************************************************)
\* a run of solve() from call to return: the returned value and the grid left
RECURSIVE solve(_, _, _, _), solve_loop(_, _, _, _, _, _, _)
solve(im, g, sz, bs) ==
    LET empty_cell == find_empty_cell(g, sz)
    IN  IF empty_cell = <<>>
        THEN [rv |-> TRUE, grid |-> g]
        ELSE solve_loop(im, g, sz, bs, empty_cell[1], empty_cell[2], 1)

\* the candidate loop of solve() from the idx-th candidate on
solve_loop(im, g, sz, bs, row, col, idx) ==
    IF idx > Len(Range1(sz))
    THEN [rv |-> FALSE, grid |-> g]
    ELSE LET num == Range1(sz)[idx]
         IN  IF is_valid_of(im, g, sz, bs, row, col, num)
             THEN LET inner == solve(im, [g EXCEPT ![row][col] = num], sz, bs)
                  IN  IF inner.rv
                      THEN inner
                      ELSE solve_loop(im, [inner.grid EXCEPT ![row][col] = 0],
                                      sz, bs, row, col, idx + 1)
             ELSE solve_loop(im, g, sz, bs, row, col, idx + 1)

\* the cells a grid shows: its rows read through their addresses
View(w) == [r \in 0..(size - 1) |-> store[rows_of[w][r]]]

\* a grid the solver completes and a grid on which it fails
CopyInputs == {Puzzle, DeadEnd}

\* the caller holds a loaded grid whose rows lie at the addresses 0..size-1
InitCopy ==
    /\ impl \in {"backtracking", "v1"}
    /\ original \in CopyInputs
    /\ grid = original
    /\ size = Cardinality(DOMAIN original)
    /\ box_size = IntSqrt(Cardinality(DOMAIN original))
    /\ stack = <<>>
    /\ pc = "ready"
    /\ rv = FALSE
    /\ result = "none"
    /\ draws = 0
    /\ difficulty = "none"
    /\ cells_to_remove = 0
    /\ positions = <<>>
    /\ ri = 0
    /\ removed = NoCounts
    /\ query = <<>>
    /\ store = [a \in 0..(Cardinality(DOMAIN original) - 1) |-> original[a]]
    /\ rows_of = [self |-> [r \in 0..(Cardinality(DOMAIN original) - 1) |-> r]]
    /\ written = <<>>
    /\ file = <<>>
    /\ edits = 0

\* `new_grid.grid = self.grid`: the copy holds the rows of the original
CopyCall_Shared ==
    /\ pc = "ready"
    /\ rows_of' = [self |-> rows_of.self, copy |-> rows_of.self]
    /\ pc' = "copied"
    /\ UNCHANGED <<impl, size, box_size, grid, original, stack, rv, result,
                   genVars, removed, query, store, written, fileVars>>

\* copy(): `[row[:] for row in self.grid]` builds a new list for every row
CopyCall ==
    /\ pc = "ready"
    /\ store' = [a \in 0..(2 * size - 1) |->
                    IF a < size THEN store[a] ELSE store[rows_of.self[a - size]]]
    /\ rows_of' = [self |-> rows_of.self, copy |-> [r \in 0..(size - 1) |-> size + r]]
    /\ pc' = "copied"
    /\ UNCHANGED <<impl, size, box_size, grid, original, stack, rv, result,
                   genVars, removed, query, written, fileVars>>

\* `g.grid[row][col] = v` on the original or on the copy
WriteCell ==
    /\ pc = "copied"
    /\ Len(written) < MaxWrites
    /\ \E w \in {"self", "copy"}, row \in 0..(size - 1), col \in 0..(size - 1),
          v \in 0..size :
           /\ store' = [store EXCEPT ![rows_of[w][row]][col] = v]
           /\ written' = Append(written, w)
    /\ UNCHANGED <<impl, size, box_size, grid, original, stack, pc, rv, result,
                   genVars, removed, query, rows_of, fileVars>>

\* main.solve_grid after the copy: the solver runs on the copy's row lists
SolveCopy ==
    /\ pc = "copied"
    /\ LET run == solve(impl, View("copy"), size, box_size)
       IN  /\ store' = [a \in DOMAIN store |->
                           IF \E r \in 0..(size - 1) : rows_of.copy[r] = a
                           THEN run.grid[CHOOSE r \in 0..(size - 1) : rows_of.copy[r] = a]
                           ELSE store[a]]
           /\ result' = IF run.rv THEN "true" ELSE "false"
    /\ written' = Append(written, "copy")
    /\ pc' = "solved"
    /\ UNCHANGED <<impl, size, box_size, grid, original, stack, rv,
                   genVars, removed, query, rows_of, fileVars>>

NextCopy == CopyCall \/ WriteCell \/ SolveCopy

SpecCopy == InitCopy /\ [][NextCopy]_vars

(***************************************************************************)
(* A generated puzzle handed to the solver, as the menu does with a grid   *)
(* it has just created.                                                    *)
(***************************************************************************)
\* the solver that runs on a grid made by the generator `im`
SolverOf(im) == IF im = "v1" THEN "v1" ELSE "backtracking"

\* solve_grid on the puzzle: copy it, run solve() on the copy to its return
SolvePuzzle ==
    /\ pc = "done"
    /\ result = "puzzle"
    /\ LET run == solve(SolverOf(impl), grid, size, box_size)
       IN  /\ grid' = run.grid
           /\ result' = IF run.rv THEN "true" ELSE "false"
    /\ original' = grid
    /\ pc' = "solved"
    /\ UNCHANGED <<impl, size, box_size, stack, rv, genVars, auxVars>>

NextPuzzle == NextGen \/ SolvePuzzle

SpecPuzzle == InitGen /\ [][NextPuzzle]_vars

(***************************************************************************)
(* Textual form of sudoku_solver_v1.py, as generate_test_grids.py uses it: *)
(* save_grid_to_file writes str(cell), load_grid_from_file reads one       *)
(* character per cell with int(char).                                      *)
(***************************************************************************)
\* str(cell): the decimal digits of a value below 100
str(value) ==
    IF value < 10 THEN <<Digits[value + 1]>>
    ELSE <<Digits[(value \div 10) + 1], Digits[(value % 10) + 1]>>

\* the line v1 save_grid_to_file builds for one row: '.' or str(cell) per cell
RECURSIVE v1_RowLine(_, _, _)
v1_RowLine(g, r, k) ==
    IF k = 0 THEN <<>>
    ELSE v1_RowLine(g, r, k - 1) \o (IF g[r][k - 1] = 0 THEN <<".">> ELSE str(g[r][k - 1]))

\* v1 save_grid_to_file: one line per row
v1_save_grid_to_file(g, sz) == [l \in 1..sz |-> v1_RowLine(g, l - 1, sz)]

\* the cell v1 load_grid_from_file reads from one character: 0 for '.',
\* int(char) when it lies in 1..size, otherwise ValueError
v1_cell(char, sz) ==
    IF char = "." THEN 0
    ELSE IF Has(Digits, char) /\ 1 <= IndexOf(Digits, char) - 1
                             /\ IndexOf(Digits, char) - 1 <= sz
         THEN IndexOf(Digits, char) - 1
         ELSE Raised

\* v1 load_grid_from_file: the grid read from the lines, or the ValueError raised
v1_load_grid_from_file(f) ==
    LET lines == SelectSeq([k \in 1..Len(f) |-> strip(f[k])], NotBlank)
        sz == Len(lines)
        chars == [k \in 1..sz |-> replace_spaces(lines[k])]
    IN  IF lines = <<>> THEN [error |-> "ValueError", grid |-> <<>>]
        ELSE IF ~IsPerfectSquare(sz) THEN [error |-> "ValueError", grid |-> <<>>]
        ELSE IF \E k \in 1..sz : Len(chars[k]) # sz
        THEN [error |-> "ValueError", grid |-> <<>>]
        ELSE IF \E k \in 1..sz, j \in 1..sz : v1_cell(chars[k][j], sz) = Raised
        THEN [error |-> "ValueError", grid |-> <<>>]
        ELSE [error |-> "none",
              grid |-> [r \in 0..(sz - 1) |->
                           [c \in 0..(sz - 1) |-> v1_cell(chars[r + 1][c + 1], sz)]]]

\* `sizes = [4, 9, 16]`
TestSizes == {4, 9, 16}

\* a complete grid _fill_grid can end with: the shifted-row pattern, its
\* values renamed by a rotation
PatternGrid(sz, a) ==
    LET bs == IntSqrt(sz)
    IN  [r \in 0..(sz - 1) |->
            [c \in 0..(sz - 1) |-> (((r % bs) * bs + (r \div bs) + c + a) % sz) + 1]]

\* the removal loop of create_puzzle run to its end on a complete grid
BlankFirst(g, sz, pos, n) ==
    [r \in 0..(sz - 1) |->
        [c \in 0..(sz - 1) |->
            IF \E k \in 1..n : pos[k] = <<r, c>> THEN 0 ELSE g[r][c]]]

\* generate_test_grids: a puzzle of one of its sizes and difficulties is in
\* memory, made by the v1 generator, and is about to be saved
InitTest ==
    /\ impl = "v1"
    /\ size \in TestSizes
    /\ difficulty \in Difficulties
    /\ positions \in PositionShuffles(size)
    /\ cells_to_remove = CellsToRemove("v1", size, difficulty)
    /\ \E a \in 0..MaxStep :
           grid = BlankFirst(PatternGrid(size, a), size, positions,
                             CellsToRemove("v1", size, difficulty))
    /\ original = grid
    /\ box_size = IntSqrt(size)
    /\ stack = <<>>
    /\ pc = "ready"
    /\ rv = FALSE
    /\ result = "none"
    /\ draws = 0
    /\ ri = cells_to_remove
    /\ removed = NoCounts
    /\ query = <<>>
    /\ store = <<>>
    /\ rows_of = <<>>
    /\ written = <<>>
    /\ file = <<>>
    /\ edits = 0

\* save_grid_to_file(puzzle, filename) of sudoku_solver_v1.py
V1SaveCall ==
    /\ pc = "ready"
    /\ file' = v1_save_grid_to_file(grid, size)
    /\ pc' = "saved"
    /\ UNCHANGED <<impl, size, box_size, grid, original, stack, rv, result,
                   genVars, removed, query, heapVars, edits>>

\* load_grid_from_file(filename) of sudoku_solver_v1.py on the file just saved
V1LoadCall ==
    /\ pc = "saved"
    /\ LET in == v1_load_grid_from_file(file)
       IN  /\ grid' = in.grid
           /\ result' = in.error
           /\ size' = Cardinality(DOMAIN in.grid)
           /\ box_size' = IntSqrt(Cardinality(DOMAIN in.grid))
    /\ pc' = "loaded"
    /\ UNCHANGED <<impl, original, stack, rv, genVars, removed, query, heapVars,
                   fileVars>>

NextTest == V1SaveCall \/ V1LoadCall

SpecTest == InitTest /\ [][NextTest]_vars

(***************************************************************************)
(* Claims.                                                                 *)
(***************************************************************************)
Finished == pc = "done"

\* C1: whenever solve returns true, the grid has no zero cell and every row,
\* column and box holds each value of 1..size exactly once, for every input grid
C1_SolveTrueImpliesSolved ==
    (Finished /\ result = "true") => (~HasZero(grid, size) /\ Solved(grid, size, box_size))

\* C2: whenever solve returns false -- the outermost call or a recursive one --
\* the grid equals the grid that call was entered with
C2_FalseRestoresGrid ==
    /\ (Finished /\ result = "false") => grid = original
    /\ (pc = "loop" /\ Top.idx = Len(Top.numbers)) => grid = Top.entry

\* a run that placed values (the conflict is met late) and returned false
C2_Witness ==
    /\ Finished /\ result = "false"
    /\ original = [HalfFilled EXCEPT ![3][3] = 4]

\* C3: on an input that satisfies the partial-fill invariant, solve returns true
\* exactly when the input has a completion, and a unique completion is reproduced
C3_TrueIffCompletion ==
    (Finished /\ PartialFill(original, size, box_size)) =>
        /\ (result = "true") <=> (Completions(original) # {})
        /\ Cardinality(Completions(original)) = 1 => grid \in Completions(original)

\* a conflict-free input without completion has been searched to the end
C3_Witness ==
    /\ Finished /\ PartialFill(original, size, box_size)
    /\ HasZero(original, size)
    /\ Completions(original) = {}

\* C4: on a grid whose only non-zero cells are two equal cells of one row,
\* solve returns false and the grid is cell for cell the input grid
C4_RowPairFails ==
    Finished => (result = "false" /\ grid = original)

\* such a run has ended, the pair sitting in the last row
C4_Witness ==
    /\ Finished
    /\ Cardinality({c \in 0..3 : original[3][c] = 4}) = 2

\* the grid the scenario text gives as the result; it is solved, but it does
\* not extend the puzzle (it has 4 3 where the puzzle has 1 2 in row 2)
ScenarioStated == FullGrid
\* the completion of the puzzle
ScenarioResult ==
    FromRows(<< <<1, 2, 4, 3>>, <<3, 4, 2, 1>>, <<4, 3, 1, 2>>, <<2, 1, 3, 4>> >>)

\* C5 as stated: on the scenario puzzle solve starts at cell (0,2), returns true
\* and leaves rows 1 2 3 4 / 3 4 1 2 / 2 1 4 3 / 4 3 2 1
C5_ScenarioAsStated ==
    original = Puzzle =>
        /\ stack # <<>> => (stack[1].row = 0 /\ stack[1].col = 2)
        /\ Finished => (result = "true" /\ grid = ScenarioStated)

\* C5 (amended): on the scenario puzzle solve starts at cell (0,2), returns true
\* and leaves rows 1 2 4 3 / 3 4 2 1 / 4 3 1 2 / 2 1 3 4
C5_Scenario ==
    original = Puzzle =>
        /\ stack # <<>> => (stack[1].row = 0 /\ stack[1].col = 2)
        /\ Finished => (result = "true" /\ grid = ScenarioResult)

\* the run on the scenario puzzle has ended
C5_Witness == original = Puzzle /\ Finished /\ grid # original

ZeroCount(g, sz) == Cardinality({p \in CellsOf(sz) : g[p[1]][p[2]] = 0})

\* C6: whatever orders the shuffles return, the fill of the empty grid returns
\* True, generate_complete_grid returns a grid without empty cell that satisfies
\* the row / column / box invariant, and create_puzzle raises nothing
C6_FillSucceeds ==
    /\ (pc = "ret" /\ stack = <<>>) => rv
    /\ pc = "filled" => (rv /\ ~HasZero(grid, size) /\ Solved(grid, size, box_size))
    /\ pc # "error"

\* generate_complete_grid has returned a 4x4 grid built from a reversed order
C6_Witness == pc = "filled" /\ size = 4 /\ grid[0][0] = 4 /\ grid[0][1] = 3

\* the tier multiplier of a difficulty, per source file
TierMultiplier(im, d) ==
    IF im = "v1" THEN [easy |-> 4, medium |-> 5, hard |-> 6][d]
                 ELSE [easy |-> 7, medium |-> 8, hard |-> 9][d]

\* C7: create_puzzle blanks pairwise distinct positions, never more than
\* size*size - size of them, and the grid it returns holds exactly
\* min(k*size, size*size - size) zeros, so at least size cells stay filled
C7_RemovedCount ==
    /\ pc \in {"remove", "done"} =>
           /\ ri <= size * size - size
           /\ Cardinality({positions[k] : k \in 1..ri}) = ri
           /\ ZeroCount(grid, size) = ri
    /\ pc = "done" =>
           /\ ZeroCount(grid, size) =
                  Min(TierMultiplier(impl, difficulty) * size, size * size - size)
           /\ size * size - ZeroCount(grid, size) >= size

\* create_puzzle has returned a 4x4 puzzle
C7_Witness == pc = "done" /\ size = 4 /\ difficulty = "easy" /\ ZeroCount(grid, size) = 12

AllCounted == \A d \in Difficulties : removed[d] # -1

\* C8 as stated: at every size of 4, 9, 16 and in both implementations, hard
\* blanks more cells than medium and medium more than easy
C8_StrictlyIncreasing ==
    (AllCounted /\ size \in {4, 9, 16}) =>
        (removed["hard"] > removed["medium"] /\ removed["medium"] > removed["easy"])

\* C8 (amended): at every size of 4, 9, 16 and in both implementations, hard
\* blanks at least as many cells as medium and medium at least as many as
\* easy; the increase is strict where hard's count is below the clamp
\* size*size - size (size 16, and size 9 in sudoku_solver_v1.py)
C8_NonDecreasing ==
    (AllCounted /\ size \in {4, 9, 16}) =>
        /\ removed["hard"] >= removed["medium"] /\ removed["medium"] >= removed["easy"]
        /\ (size = 16 \/ (size = 9 /\ impl = "v1")) =>
               (removed["hard"] > removed["medium"] /\ removed["medium"] > removed["easy"])

\* the three counts at size 9 of sudoku_generator.py, where the clamp applies
C8_Witness ==
    AllCounted /\ size = 9 /\ impl = "generator" /\ removed["hard"] = 72

\* C9: for every size of 1..36 construction succeeds exactly when size is a
\* perfect square, then with a size x size grid of zeros and
\* box_size * box_size = size; otherwise ValueError and no grid
C9_ConstructIffSquare ==
    /\ pc = "constructed" =>
           /\ \E b \in 1..size : b * b = size
           /\ DOMAIN grid = 0..(size - 1)
           /\ \A r \in DOMAIN grid :
                  DOMAIN grid[r] = 0..(size - 1) /\ \A c \in DOMAIN grid[r] : grid[r][c] = 0
           /\ box_size * box_size = size
    /\ pc = "error" =>
           /\ ~ \E b \in 1..size : b * b = size
           /\ grid = <<>>
           /\ result = "ValueError"

\* a 25 x 25 grid has been constructed
C9_Witness == pc = "constructed" /\ size = 25 /\ box_size = 5

\* the cells of the row, the column and the box of (row, col)
Peers(sz, bs, row, col) ==
    {p \in CellsOf(sz) :
        \/ p[1] = row
        \/ p[2] = col
        \/ (p[1] \div bs = row \div bs /\ p[2] \div bs = col \div bs)}

\* C10: is_valid(row, col, v) is true exactly when v occurs in no cell of the
\* row, the column and the box of (row, col), whether or not (row, col) is
\* empty, and the call leaves the grid unchanged
C10_IsValidIffAbsent ==
    pc = "answered" =>
        /\ query.answer <=>
               ~ \E p \in Peers(size, box_size, query.row, query.col) :
                     grid[p[1]][p[2]] = query.num
        /\ grid = original

\* is_valid has answered true for a cell that is not empty
C10_Witness ==
    /\ pc = "answered"
    /\ query.answer
    /\ grid[query.row][query.col] # 0

\* (r, c) comes before (r2, c2) when the grid is read row by row
RowMajorBefore(p, q) == p[1] < q[1] \/ (p[1] = q[1] /\ p[2] < q[2])

\* C11: find_empty_cell returns the zero cell that comes first in row-major
\* order, and returns None exactly when the grid has no zero cell
C11_FirstEmptyRowMajor ==
    pc = "found" =>
        /\ (query.answer = <<>>) <=> ~HasZero(grid, size)
        /\ query.answer # <<>> =>
               /\ query.answer \in CellsOf(size)
               /\ grid[query.answer[1]][query.answer[2]] = 0
               /\ \A p \in CellsOf(size) :
                      RowMajorBefore(p, query.answer) => grid[p[1]][p[2]] # 0
        /\ grid = original

\* a cell was returned although a zero cell of a later row lies in an earlier column
C11_Witness ==
    /\ pc = "found"
    /\ query.answer # <<>>
    /\ \E p \in CellsOf(size) :
           grid[p[1]][p[2]] = 0 /\ p[2] < query.answer[2] /\ p[1] > query.answer[1]

Targets(ws) == {ws[k] : k \in 1..Len(ws)}

\* C12: copy() returns a grid with the same size and cells that shares no
\* storage with the original: whichever of the two grids the later cell writes
\* -- single writes, or a whole solve run on the copy -- did not go to still
\* shows the cells it had when copy() returned
C12_CopyIndependent ==
    pc \in {"copied", "solved"} =>
        /\ DOMAIN View("copy") = DOMAIN original
        /\ written = <<>> => View("copy") = original /\ View("self") = original
        /\ \A w \in {"self", "copy"} : w \notin Targets(written) => View(w) = original

\* a solve run on the copy has ended after placing values, the original untouched
C12_Witness ==
    /\ pc = "solved"
    /\ Targets(written) = {"copy"}
    /\ View("copy") # original
    /\ View("self") = original

\* C13: a grid of size 4, 9, 16 or 25 with cells in 0..size, written by
\* save_grid_to_file as one line per row and one symbol per cell and read back
\* by load_grid_from_file, comes back with the same size and equal cells; and
\* char_to_value(value_to_char(v)) = v for every v in 0..35
C13_RoundTrip ==
    LET n == Cardinality(DOMAIN original)
    IN  /\ (pc = "saved" /\ n \in {4, 9, 16, 25}) =>
               /\ result = "none"
               /\ Len(file) = n
               /\ \A l \in 1..n : Len(file[l]) = n
        /\ (pc = "loaded" /\ n \in {4, 9, 16, 25}) =>
               /\ result = "none"
               /\ size = n
               /\ grid = original
        /\ (pc = "encoded" /\ query.value \in 0..35) => query.char # "ValueError"
        /\ (pc = "decoded" /\ query.value \in 0..35) => query.decoded = query.value

\* a grid of size 25 that holds the value 25 has been saved and read back
C13_Witness ==
    /\ pc = "loaded"
    /\ Cardinality(DOMAIN original) = 25
    /\ \E p \in CellsOf(25) : original[p[1]][p[2]] = 25

\* C14: for every valid size up to 36 and every cell value v in 0..size,
\* value_to_char(v) returns a symbol and char_to_value of that symbol returns v
C14_EncodingCoversSizes ==
    /\ pc = "encoded" => query.char # "ValueError"
    /\ pc = "decoded" => query.decoded = query.value

\* what a file says, read independently of the loader: its non-blank lines
\* without spaces, and the value each symbol stands for
Symbols == Digits \o Upper
SymbolValue(ch) ==
    IF ch = "." THEN 0
    ELSE IF Has(Symbols, ch) THEN IndexOf(Symbols, ch) - 1
    ELSE IndexOf(Symbols, Upper[IndexOf(Lower, ch)]) - 1
IsSymbol(ch) == ch = "." \/ Has(Digits, ch) \/ Has(Upper, ch) \/ Has(Lower, ch)
TextLines(f) == SelectSeq([k \in 1..Len(f) |-> SelectSeq(f[k], NotSpace)], NotBlank)
IsSquareNumber(n) == \E b \in 0..n : b * b = n

\* one of the defects the loader is said to reject
Malformed(f) ==
    LET t == TextLines(f)
        n == Len(t)
    IN  \/ ~IsSquareNumber(n)
        \/ \E l \in 1..n : Len(t[l]) # n
        \/ \E l \in 1..n : \E k \in 1..Len(t[l]) :
               ~IsSymbol(t[l][k]) \/ SymbolValue(t[l][k]) > n

\* the grid a well-formed file describes
Described(f) ==
    LET t == TextLines(f)
    IN  [r \in 0..(Len(t) - 1) |-> [c \in 0..(Len(t) - 1) |-> SymbolValue(t[r + 1][c + 1])]]

\* C15 as stated: load_grid_from_file raises ValueError and returns no grid
\* whenever the number of non-blank lines is not a perfect square, a line
\* without its spaces has another length, or a character is no symbol or
\* decodes to more than size; otherwise it returns the grid of decoded cells
C15_LoadRejectsAsStated ==
    (pc = "loaded" /\ original = <<>>) =>
        IF Malformed(file)
        THEN result = "ValueError" /\ grid = <<>>
        ELSE /\ result = "none"
             /\ grid = Described(file)
             /\ \A p \in CellsOf(size) : grid[p[1]][p[2]] \in 0..size

\* C15: load_grid_from_file raises ValueError and returns no grid whenever the
\* file has no non-blank line or one of the stated defects; otherwise it
\* returns the grid of decoded cells, every cell in 0..size
C15_LoadRejects ==
    (pc = "loaded" /\ original = <<>>) =>
        IF TextLines(file) = <<>> \/ Malformed(file)
        THEN result = "ValueError" /\ grid = <<>>
        ELSE /\ result = "none"
             /\ grid = Described(file)
             /\ \A p \in CellsOf(size) : grid[p[1]][p[2]] \in 0..size

\* a file of 16 lines with blanks between the symbols has been loaded
C15_Witness ==
    /\ pc = "loaded" /\ original = <<>>
    /\ result = "none"
    /\ size = 16
    /\ Has(file[1], " ")

\* C16: solve never writes to a cell that was non-zero when it was called: at
\* every intermediate state and on return, every pre-filled cell holds its
\* input value (SudokuSolver.solve and SudokuGrid.solve_bruteforce)
C16_PrefilledKept ==
    \A p \in CellsOf(size) :
        original[p[1]][p[2]] # 0 => grid[p[1]][p[2]] = original[p[1]][p[2]]

\* an inner call has returned false and its placement is about to be undone,
\* on an input with pre-filled cells
C16_Witness ==
    /\ pc = "ret" /\ ~rv /\ Len(stack) >= 2
    /\ \E p \in CellsOf(size) : original[p[1]][p[2]] # 0

\* C17: solve terminates on every input grid, and the nesting depth of the
\* tentative placements never exceeds the number of empty cells of the input,
\* which is at most size * size
C17_Terminates ==
    /\ <>Finished
    /\ [](/\ Len(stack) <= ZeroCount(original, size)
          /\ ZeroCount(original, size) <= size * size)

\* the recursion is as deep as the input has empty cells, eight or more
C17_Witness ==
    /\ pc = "call"
    /\ Len(stack) = ZeroCount(original, size)
    /\ Len(stack) >= 8

\* the partial-fill invariant read cell by cell: a non-zero cell differs from
\* every other cell of its row, of its column and of its box
NoRepeatedValue(g, sz, bs) ==
    \A r \in 0..(sz - 1), c \in 0..(sz - 1) :
        g[r][c] # 0 =>
            /\ \A k \in 0..(sz - 1) : k # c => g[r][k] # g[r][c]
            /\ \A k \in 0..(sz - 1) : k # r => g[k][c] # g[r][c]
            /\ \A a \in 0..(bs - 1), b \in 0..(bs - 1) :
                   LET br == (r \div bs) * bs + a
                       bc == (c \div bs) * bs + b
                   IN  (br # r \/ bc # c) => g[br][bc] # g[r][c]

\* C18: if the input satisfies the partial-fill invariant, every intermediate
\* grid state during solve satisfies it, and so does every intermediate grid
\* state during the generator's _fill_grid, which starts from the empty grid
C18_PartialFillKept ==
    /\ (original # <<>> /\ NoRepeatedValue(original, size, box_size)) =>
           NoRepeatedValue(grid, size, box_size)
    /\ (original = <<>> /\ pc \in {"call", "loop", "ret"}) =>
           NoRepeatedValue(grid, size, box_size)

\* _fill_grid is three placements deep with a candidate list that is not ascending
C18_Witness ==
    /\ original = <<>>
    /\ pc = "loop"
    /\ Len(stack) >= 3
    /\ Top.numbers # Range1(size)
    /\ ZeroCount(grid, size) < size * size

\* a comes before b when the cells are compared in row-major order
LexLess(a, b) ==
    \E p \in CellsOf(4) :
        /\ a[p[1]][p[2]] < b[p[1]][p[2]]
        /\ \A q \in CellsOf(4) : RowMajorBefore(q, p) => a[q[1]][q[2]] = b[q[1]][q[2]]

\* what a run of solve from call to return yields on the input
Rerun == solve(impl, original, size, box_size)

\* C19: solve is deterministic and returns the first solution in search order:
\* a second run on the same input gives the same returned value and the same
\* grid, and when solve returns true the final grid is the completion of the
\* input that is smallest reading the originally empty cells in row-major order
C19_FirstSolution ==
    Finished =>
        /\ (result = "true") <=> Rerun.rv
        /\ grid = Rerun.grid
        /\ (result = "true") =>
               /\ grid \in Completions(original)
               /\ \A s \in Completions(original) : s = grid \/ LexLess(grid, s)

\* the same statement on the inputs that satisfy the partial-fill invariant
FirstSolutionOnValidInputs ==
    PartialFill(original, size, box_size) => C19_FirstSolution

\* C20: every puzzle returned by create_puzzle is solvable: the removal only
\* blanks cells, so its non-zero cells are unchanged cells of the complete
\* grid; it satisfies the partial-fill invariant; and solve on it returns true
\* with a grid that has no zero cell, is valid in every unit and extends it
C20_PuzzleSolvable ==
    /\ [][pc = "remove" =>
              \A p \in CellsOf(size) : grid'[p[1]][p[2]] \in {0, grid[p[1]][p[2]]}]_vars
    /\ []((pc = "remove" /\ ri = 0) => Solved(grid, size, box_size))
    /\ []((pc = "done" /\ result = "puzzle") => PartialFill(grid, size, box_size))
    /\ [](pc = "solved" =>
              /\ result = "true"
              /\ ~HasZero(grid, size)
              /\ Solved(grid, size, box_size)
              /\ \A p \in CellsOf(size) :
                     original[p[1]][p[2]] \in {0, grid[p[1]][p[2]]})

\* a 4x4 puzzle with twelve blanks has been solved
C20_Witness ==
    /\ pc = "solved"
    /\ size = 4
    /\ ZeroCount(original, size) = 12
    /\ result = "true"

\* what C21 says of a puzzle whose side is n
V1RoundTripAt(n) ==
    /\ pc = "saved" => (Len(file) = n /\ \A l \in 1..n : Len(file[l]) = n)
    /\ pc = "loaded" => (result = "none" /\ grid = original)

\* C21: every puzzle that generate_test_grids writes with the v1
\* save_grid_to_file, for each of its sizes 4, 9 and 16, is written with one
\* character per cell and lines of length size, and the v1
\* load_grid_from_file reads it back into a grid equal to the one written
C21_V1RoundTrip == V1RoundTripAt(Cardinality(DOMAIN original))

\* the same statement for the sizes 4 and 9 alone
V1RoundTripBelowTen ==
    Cardinality(DOMAIN original) \in {4, 9} => V1RoundTripAt(Cardinality(DOMAIN original))
====
